---- MODULE Spec2Model ----
(***************************************************************************)
(* The bulk card-data ingestion pipeline of scripts/populate_cards.py:     *)
(* main_populate (the batch orchestrator) and process_card_data (one item  *)
(* task), over the card_definitions table of app/models.py.                *)
(*                                                                         *)
(* asyncio runs one coroutine at a time and switches only at an await, so  *)
(* every action below is the code between two awaits of one coroutine.     *)
(***************************************************************************)
EXTENDS Integers, Sequences, FiniteSets, TLC

(***************************************************************************)
(* Bounds of the model.                                                    *)
(***************************************************************************)
\* longest enumerated dataset
MaxItems == 2
\* concurrency_factor (20 in the script), scaled down
concurrency_factor == 2
\* commit_batch_size (200 in the script), scaled down
commit_batch_size == 4

(***************************************************************************)
(* Python values.  None and the empty string are the two falsy values a    *)
(* field of a decoded card object can take here.                           *)
(***************************************************************************)
None == 0
Empty == 0 - 1
Truthy(v) == v \notin {None, Empty}

Sizes == {"small", "normal", "large"}
\* the order in which process_card_data downloads the three images
SizeOrder == <<"small", "normal", "large">>

NoUris == [s \in Sizes |-> None]
AllUris == [s \in Sizes |-> 1]

(***************************************************************************)
(* One entry of the bulk file: the keys process_card_data reads.           *)
(***************************************************************************)
Card(id, name, uris) == [id |-> id, name |-> name, image_uris |-> uris]

\* the card objects the enumerated datasets are built from
CardKinds ==
    { Card(1, 1, AllUris),
      Card(2, 1, [NoUris EXCEPT !["small"] = 1]),
      Card(2, 1, NoUris),
      Card(None, 1, AllUris),
      Card(Empty, 1, NoUris),
      Card(1, None, AllUris),
      Card(2, Empty, NoUris) }

\* the sequences of at most n pairwise different elements of S
RECURSIVE SeqsUpTo(_, _)
SeqsUpTo(S, n) ==
    IF n = 0 THEN {<<>>}
    ELSE LET shorter == SeqsUpTo(S, n - 1)
         IN  shorter \cup
             UNION {{Append(q, x) : x \in S \ {q[k] : k \in 1..Len(q)}} :
                        q \in {r \in shorter : Len(r) = n - 1}}

\* a dataset of n valid cards with pairwise distinct ids 11, 12, ... and no images
DistinctCards(n) == [k \in 1..n |-> Card(10 + k, 1, NoUris)]

\* two full commit batches and a remainder (450 = 2 * 200 + 50 in the spec)
BatchDataset == DistinctCards(2 * commit_batch_size + 1)

\* one full commit batch and a remainder of cards that carry no id, or the id
\* of a row the table may hold already, or no name
SkippedDataset ==
    [k \in 1..(commit_batch_size + 1) |->
        CASE k % 3 = 1 -> Card(None, 1, NoUris)
          [] k % 3 = 2 -> Card(1, 1, NoUris)
          [] OTHER     -> Card(2, Empty, NoUris)]

Datasets == SeqsUpTo(CardKinds, MaxItems) \cup {BatchDataset, SkippedDataset}

(***************************************************************************)
(* app/models.py: the card_definitions table.                              *)
(***************************************************************************)
\* the attributes class CardDefinition declares
CardDefinition ==
    {"id", "scryfall_id", "name", "set_code", "collector_number",
     "date_added", "date_updated", "collection_entries"}

\* the keys of the dict process_card_data builds and passes as **kwargs
card_model_data_keys ==
    {"scryfall_id", "name", "set_code", "collector_number", "legalities",
     "type_line", "image_uri_small", "image_uri_normal", "image_uri_large",
     "image_uri_art_crop", "image_uri_border_crop",
     "image_data_small", "image_data_normal", "image_data_large"}

\* CardDefinitionModel(**kwargs): the declarative constructor sets each
\* keyword that is an attribute of the class and raises TypeError for any
\* other.  TRUE when the instance is constructed.
CardDefinitionModel(kwargs) == kwargs \subseteq CardDefinition

\* a row (or a pending instance): the fields the pipeline reads or writes
Row(id, name, uri, data) ==
    [scryfall_id |-> id, name |-> name, image_uri |-> uri, image_data |-> data]

NoData == Row(None, None, NoUris, NoUris)

\* rows that may be in the table before the first run
StoredIds == {1, 2}
InitialRow(id) == Row(id, 1, NoUris, NoUris)

\* the table without the unique index: a second row may carry the id of another
Tables_without_unique_index ==
    LET unique == {{InitialRow(id) : id \in ids} : ids \in SUBSET StoredIds}
    IN  unique \cup {T \cup {Row(id, 2, NoUris, NoUris)} : T \in unique, id \in StoredIds}

\* the contents the table can have before the first run: scryfall_id is
\* unique (models.py line 23), so at most one row per id
Tables == {{InitialRow(id) : id \in ids} : ids \in SUBSET StoredIds}


(***************************************************************************)
(* The directory endpoint https://api.scryfall.com/bulk-data and the bulk  *)
(* file it points to.                                                      *)
(***************************************************************************)
Entry(type, uri) == [type |-> type, download_uri |-> uri]

Directories ==
    { <<Entry("oracle_cards", 1)>>,
      <<Entry("oracle_cards", 1), Entry("all_cards", 2), Entry("all_cards", 3)>> }

VARIABLES
    bulk_data_list,     \* the "data" list the directory endpoint serves
    bulk,               \* the card objects the bulk file holds
    card_definitions,   \* the committed rows of the table
    session_new,        \* instances added to the session and not yet committed
    pc,                 \* where main_populate is
    bulk_data_uri,      \* main_populate: the located download_uri or None
    all_cards_data,     \* main_populate: the decoded bulk file
    i,                  \* main_populate: the loop variable of the window loop
    processed_count_since_last_commit,
    tasks,              \* one process_card_data task per index of all_cards_data
    outcome,            \* how asyncio.run(main_populate()) ended
    caught,             \* what the except clause of main_populate caught
    commit_calls,       \* session.commit() calls issued in this run
    rollback_calls,     \* session.rollback() calls issued in this run
    windows,            \* asyncio.gather calls issued in this run
    persisted,          \* per successful commit of this run, the rows it persisted
    before,             \* the table when this run started
    prev,               \* how the run before this one ended, if there was one
    call                \* the CardDefinitionModel(...) call of the last step, if any

vars ==
    <<bulk_data_list, bulk, card_definitions, session_new, pc, bulk_data_uri,
      all_cards_data, i, processed_count_since_last_commit, tasks, outcome,
      caught, commit_calls, rollback_calls, windows, persisted, before, prev, call>>

remote == <<bulk_data_list, bulk>>
orchestrator == <<pc, bulk_data_uri, all_cards_data, i, processed_count_since_last_commit>>
history == <<outcome, caught, commit_calls, rollback_calls, windows, persisted, before, prev>>

\* the download_uri of the last entry of the requested type
get_latest_bulk_data_uri_of_the_last(bulk_type) ==
    LET hits == {k \in 1..Len(bulk_data_list) : bulk_data_list[k].type = bulk_type}
    IN  IF hits = {} THEN None
        ELSE bulk_data_list[CHOOSE k \in hits : \A h \in hits : k >= h].download_uri

(***************************************************************************)
(* get_latest_bulk_data_uri: the download_uri of the first entry of the    *)
(* requested type, None when there is none.                                *)
(***************************************************************************)
get_latest_bulk_data_uri(bulk_type) ==
    LET hits == {k \in 1..Len(bulk_data_list) : bulk_data_list[k].type = bulk_type}
    IN  IF hits = {} THEN None
        ELSE bulk_data_list[CHOOSE k \in hits : \A h \in hits : k <= h].download_uri

(***************************************************************************)
(* crud.get_card_definition_by_scryfall_id: the rows the select returns;   *)
(* .first() is None exactly when there is none.                            *)
(***************************************************************************)
get_card_definition_by_scryfall_id(db, scryfall_id) ==
    {row \in db : row.scryfall_id = scryfall_id}

(***************************************************************************)
(* process_card_data                                                       *)
(***************************************************************************)
\* a task: where it is, its locals, and what it has done so far
Task(at) ==
    [pc |-> at, card_model_data |-> NoData, size |-> 0,
     looked |-> FALSE, existing |-> FALSE, requested |-> {},
     fetched |-> [s \in Sizes |-> "none"], result |-> "none"]

NoTask == Task("idle")

\* no constructor call in this step
NoCall == [task |-> 0, kwargs |-> NoData, fetched |-> [s \in Sizes |-> "none"]]

InFlight(t) == tasks[t].pc \in {"new", "lookup", "get"}

\* lines 39-42: the id check
missing_id(card_data) == ~Truthy(card_data.id)

\* process_card_data without the dedup gate of lines 45-48
never_exists(existing_card_def) == FALSE

\* lines 45-48: the dedup gate
already_exists(existing_card_def) == existing_card_def # {}

\* lines 50-68: the dict built from the card object
build(card_data) ==
    Row(card_data.id, card_data.name, card_data.image_uris, NoUris)

\* process_card_data without the name check of lines 70-73
missing_name_unchecked(card_model_data) == FALSE

\* lines 70-73: the name check
missing_name(card_model_data) == ~Truthy(card_model_data.name)

\* the next image to download, looked for from the first size again
next_size_from_the_first(card_model_data, k) ==
    LET todo == {n \in 1..Len(SizeOrder) : Truthy(card_model_data.image_uri[SizeOrder[n]])}
    IN  IF todo = {} THEN 0 ELSE CHOOSE n \in todo : \A m \in todo : n <= m

\* the position in SizeOrder of the next image to download from position k on:
\* the first size whose image_uri is truthy (lines 76, 89, 102), 0 when none
next_size(card_model_data, k) ==
    LET todo == {n \in k..Len(SizeOrder) : Truthy(card_model_data.image_uri[SizeOrder[n]])}
    IN  IF todo = {} THEN 0 ELSE CHOOSE n \in todo : \A m \in todo : n <= m

\* what image_client.get followed by raise_for_status can do
Responses == {"ok", "http_status_error", "exception"}

\* one download with the URI cleared whatever the outcome
download_clearing_always(card_model_data, s, response) ==
    CASE response = "ok" ->
            [card_model_data EXCEPT !.image_data[s] = 1, !.image_uri[s] = None]
      [] OTHER ->
            [card_model_data EXCEPT !.image_uri[s] = None]

\* lines 77-87 (and 90-100, 103-113): one download and its except clauses
download(card_model_data, s, response) ==
    CASE response = "ok" ->
            [card_model_data EXCEPT !.image_data[s] = 1]
      [] response = "http_status_error" ->
            card_model_data
      [] OTHER ->
            [card_model_data EXCEPT !.image_uri[s] = None]

\* lines 116-124: construct the instance and add it to the session; a
\* TypeError of the constructor is caught and printed.  self is the task as
\* it stands when the try block is entered.
stage(t, self, card_model_data) ==
    LET done == [self EXCEPT !.pc = "done", !.size = 0, !.card_model_data = NoData,
                             !.fetched = NoCall.fetched]
    IN  /\ call' = [task |-> t, kwargs |-> card_model_data, fetched |-> self.fetched]
        /\ IF CardDefinitionModel(card_model_data_keys)
           THEN /\ session_new' = Append(session_new, card_model_data)
                /\ tasks' = [tasks EXCEPT ![t] = [done EXCEPT !.result = "added"]]
           ELSE /\ UNCHANGED session_new
                /\ tasks' = [tasks EXCEPT ![t] = [done EXCEPT !.result = "error"]]

\* lines 76-124 from the download at position k on: suspend in the next
\* image_client.get, or stage when no download is left
fetch_from(t, self, card_model_data, k) ==
    LET n == next_size(card_model_data, k)
    IN  IF n # 0
        THEN /\ tasks' = [tasks EXCEPT ![t] = [self EXCEPT !.pc = "get", !.size = n,
                                                            !.card_model_data = card_model_data,
                                                            !.requested = @ \cup {SizeOrder[n]}]]
             /\ UNCHANGED session_new
             /\ call' = NoCall
        ELSE stage(t, self, card_model_data)

\* the tasks asyncio.gather schedules take their first step in the order they
\* were created, before any awaited call of one of them returns
Scheduled(t) ==
    /\ tasks[t].pc = "new"
    /\ \A u \in DOMAIN tasks : u < t => tasks[u].pc # "new"

Started == \A u \in DOMAIN tasks : tasks[u].pc # "new"

\* lines 39-44, up to the await of the lookup
Start(t) ==
    /\ Scheduled(t)
    /\ IF missing_id(all_cards_data[t])
       THEN tasks' = [tasks EXCEPT ![t].pc = "done", ![t].result = "no_id"]
       ELSE tasks' = [tasks EXCEPT ![t].pc = "lookup"]
    /\ UNCHANGED <<remote, card_definitions, session_new, orchestrator, history>>
    /\ call' = NoCall

\* lines 44-79: the lookup returns; the gate, the dict, the name check and
\* the code up to the next await
LookupReturn(t) ==
    /\ Started
    /\ tasks[t].pc = "lookup"
    /\ LET card_data == all_cards_data[t]
           existing_card_def ==
               get_card_definition_by_scryfall_id(card_definitions, card_data.id)
           self == [tasks[t] EXCEPT !.looked = TRUE,
                                    !.existing = (existing_card_def # {})]
       IN  IF already_exists(existing_card_def)
           THEN /\ tasks' = [tasks EXCEPT ![t] = [self EXCEPT !.pc = "done",
                                                              !.result = "exists"]]
                /\ UNCHANGED session_new
                /\ call' = NoCall
           ELSE IF missing_name(build(card_data))
           THEN /\ tasks' = [tasks EXCEPT ![t] = [self EXCEPT !.pc = "done",
                                                              !.result = "no_name"]]
                /\ UNCHANGED session_new
                /\ call' = NoCall
           ELSE fetch_from(t, self, build(card_data), 1)
    /\ UNCHANGED <<remote, card_definitions, orchestrator, history>>

\* line 44: the lookup raises (a database error, a lost connection, a
\* session used by two tasks at once); nothing in process_card_data catches it
LookupRaise(t) ==
    /\ Started
    /\ tasks[t].pc = "lookup"
    /\ tasks' = [tasks EXCEPT ![t].pc = "raised", ![t].result = "raised",
                              ![t].looked = TRUE]
    /\ UNCHANGED <<remote, card_definitions, session_new, orchestrator, history>>
    /\ call' = NoCall

\* lines 79-87, 92-100, 105-113: image_client.get returns or raises, then the
\* code up to the next await
GetReturn(t, response) ==
    /\ Started
    /\ tasks[t].pc = "get"
    /\ LET s == SizeOrder[tasks[t].size]
           self == [tasks[t] EXCEPT !.fetched[s] = response]
       IN  fetch_from(t, self, download(tasks[t].card_model_data, s, response),
                      tasks[t].size + 1)
    /\ UNCHANGED <<remote, card_definitions, orchestrator, history>>

(***************************************************************************)
(* main_populate                                                           *)
(***************************************************************************)
Min(a, b) == IF a <= b THEN a ELSE b

\* a window one card wider than concurrency_factor
batch_card_data_wider(cards, at) ==
    (at + 1)..Min(at + concurrency_factor + 1, Len(cards))

\* a slice that stops one card short of the next window
batch_card_data_short(cards, at) ==
    (at + 1)..Min(at + concurrency_factor - 1, Len(cards))

\* line 162: the indices (from 1) of all_cards_data[i:i + concurrency_factor]
batch_card_data(cards, at) == (at + 1)..Min(at + concurrency_factor, Len(cards))

\* the tasks of the next window are created together with those of this one
gather_ahead(cards, at) ==
    [t \in 1..Len(cards) |->
        IF t \in (at + 1)..Min(at + 2 * concurrency_factor, Len(cards)) THEN Task("new")
        ELSE IF t \in DOMAIN tasks THEN tasks[t] ELSE NoTask]

\* lines 164-167: one coroutine per card of the window, handed to gather
gather(cards, at) ==
    [t \in 1..Len(cards) |->
        IF t \in batch_card_data(cards, at) THEN Task("new")
        ELSE IF t \in DOMAIN tasks THEN tasks[t] ELSE NoTask]

\* what asyncio.run does to the tasks still pending when main_populate ends
cancel_all ==
    [t \in DOMAIN tasks |->
        IF InFlight(t) THEN [tasks[t] EXCEPT !.pc = "cancelled", !.result = "cancelled"]
        ELSE tasks[t]]

\* the window loop without the final commit of lines 183-186
loop_without_final_commit(cards, at, count) ==
    IF at < Len(cards)
    THEN /\ pc' = "gather"
         /\ i' = at
         /\ tasks' = gather(cards, at)
         /\ windows' = windows + 1
         /\ UNCHANGED commit_calls
    ELSE /\ i' = i
         /\ UNCHANGED <<tasks, windows, commit_calls>>
         /\ pc' = "close"

\* line 161 and lines 183-186: the head of the window loop at index at, with
\* count the value of processed_count_since_last_commit: the next window, or
\* the final commit, or the end of the try block
loop(cards, at, count) ==
    IF at < Len(cards)
    THEN /\ pc' = "gather"
         /\ i' = at
         /\ tasks' = gather(cards, at)
         /\ windows' = windows + 1
         /\ UNCHANGED commit_calls
    ELSE /\ i' = i
         /\ UNCHANGED <<tasks, windows>>
         /\ IF count > 0
            THEN pc' = "final_commit" /\ commit_calls' = commit_calls + 1
            ELSE pc' = "close" /\ UNCHANGED commit_calls

\* main_populate lines 187-189 without the rollback
except_without_rollback(e) ==
    /\ pc' = "close"
    /\ caught' = e
    /\ UNCHANGED rollback_calls

\* lines 187-189: the except clause, up to the await of the rollback
except(e) ==
    /\ pc' = "rollback"
    /\ caught' = e
    /\ rollback_calls' = rollback_calls + 1

\* the end of asyncio.run(main_populate()): how, and what is left behind
finish(how) ==
    /\ pc' = "finished"
    /\ outcome' = how
    /\ tasks' = cancel_all
    /\ session_new' = <<>>

\* line 132: the directory lookup returns
Locate ==
    /\ pc = "locate"
    /\ bulk_data_uri' = get_latest_bulk_data_uri("all_cards")
    /\ IF ~Truthy(bulk_data_uri')
       THEN finish("returned")
       ELSE pc' = "download" /\ UNCHANGED <<outcome, tasks, session_new>>
    /\ UNCHANGED <<remote, card_definitions, all_cards_data, i,
                   processed_count_since_last_commit, caught, commit_calls,
                   rollback_calls, windows, persisted, before, prev>>
    /\ call' = NoCall

\* lines 30-31: the directory GET fails; the exception leaves main_populate
LocateRaise ==
    /\ pc = "locate"
    /\ finish("raised")
    /\ UNCHANGED <<remote, card_definitions, bulk_data_uri, all_cards_data, i,
                   processed_count_since_last_commit, caught, commit_calls,
                   rollback_calls, windows, persisted, before, prev>>
    /\ call' = NoCall

\* line 147 not commented out: the table is dropped before create_all
Download_dropping_the_table ==
    /\ pc = "download"
    /\ all_cards_data' = bulk
    /\ processed_count_since_last_commit' = 0
    /\ loop(bulk, 0, 0)
    /\ card_definitions' = {}
    /\ UNCHANGED <<remote, session_new, bulk_data_uri, outcome,
                   caught, rollback_calls, persisted, before, prev>>
    /\ call' = NoCall

\* lines 139-164: the bulk file arrives and is decoded; the session and the
\* image client are opened and the first window is launched
Download ==
    /\ pc = "download"
    /\ all_cards_data' = bulk
    /\ processed_count_since_last_commit' = 0
    /\ loop(bulk, 0, 0)
    /\ UNCHANGED <<remote, card_definitions, session_new, bulk_data_uri, outcome,
                   caught, rollback_calls, persisted, before, prev>>
    /\ call' = NoCall

\* the failure of the bulk GET is caught and main_populate returns
DownloadRaise_caught ==
    /\ pc = "download"
    /\ finish("returned")
    /\ UNCHANGED <<remote, card_definitions, bulk_data_uri, all_cards_data, i,
                   processed_count_since_last_commit, caught, commit_calls,
                   rollback_calls, windows, persisted, before, prev>>
    /\ call' = NoCall

\* lines 139-148: the bulk GET fails, the body does not parse or create_all fails; the
\* exception leaves main_populate
DownloadRaise ==
    /\ pc = "download"
    /\ finish("raised")
    /\ UNCHANGED <<remote, card_definitions, bulk_data_uri, all_cards_data, i,
                   processed_count_since_last_commit, caught, commit_calls,
                   rollback_calls, windows, persisted, before, prev>>
    /\ call' = NoCall

\* the wait ends as soon as one task of the window has returned
GatherReturn_first_completed ==
    /\ pc = "gather"
    /\ \E t \in batch_card_data(all_cards_data, i) : tasks[t].pc = "done"
    /\ LET count == processed_count_since_last_commit
                        + Cardinality(batch_card_data(all_cards_data, i))
       IN  /\ processed_count_since_last_commit' = count
           /\ IF count >= commit_batch_size
              THEN /\ pc' = "commit"
                   /\ commit_calls' = commit_calls + 1
                   /\ UNCHANGED <<i, tasks, windows>>
              ELSE loop(all_cards_data, i + concurrency_factor, count)
    /\ UNCHANGED <<remote, card_definitions, session_new, bulk_data_uri, all_cards_data,
                   outcome, caught, rollback_calls, persisted, before, prev>>
    /\ call' = NoCall

\* lines 167-176 with a counter that leaves out the cards skipped or rejected
GatherReturn_counting_the_kept ==
    /\ pc = "gather"
    /\ \A t \in batch_card_data(all_cards_data, i) : tasks[t].pc = "done"
    /\ LET count == processed_count_since_last_commit
                        + Cardinality({t \in batch_card_data(all_cards_data, i) :
                                            tasks[t].result \notin {"no_id", "exists", "no_name"}})
       IN  /\ processed_count_since_last_commit' = count
           /\ IF count >= commit_batch_size
              THEN /\ pc' = "commit"
                   /\ commit_calls' = commit_calls + 1
                   /\ UNCHANGED <<i, tasks, windows>>
              ELSE loop(all_cards_data, i + concurrency_factor, count)
    /\ UNCHANGED <<remote, card_definitions, session_new, bulk_data_uri, all_cards_data,
                   outcome, caught, rollback_calls, persisted, before, prev>>
    /\ call' = NoCall

\* the wait ends as soon as one task of the window has returned, and only
\* the tasks that have returned are counted
GatherReturn_counting_the_returned ==
    /\ pc = "gather"
    /\ \E t \in batch_card_data(all_cards_data, i) : tasks[t].pc = "done"
    /\ LET count == processed_count_since_last_commit
                        + Cardinality({t \in batch_card_data(all_cards_data, i) :
                                            tasks[t].pc = "done"})
       IN  /\ processed_count_since_last_commit' = count
           /\ IF count >= commit_batch_size
              THEN /\ pc' = "commit"
                   /\ commit_calls' = commit_calls + 1
                   /\ UNCHANGED <<i, tasks, windows>>
              ELSE loop(all_cards_data, i + concurrency_factor, count)
    /\ UNCHANGED <<remote, card_definitions, session_new, bulk_data_uri, all_cards_data,
                   outcome, caught, rollback_calls, persisted, before, prev>>
    /\ call' = NoCall

\* lines 167-176: every task of the window has returned; count, and commit
\* when the threshold is reached, else go on with the next window
GatherReturn ==
    /\ pc = "gather"
    /\ \A t \in batch_card_data(all_cards_data, i) : tasks[t].pc = "done"
    /\ LET count == processed_count_since_last_commit
                        + Cardinality(batch_card_data(all_cards_data, i))
       IN  /\ processed_count_since_last_commit' = count
           /\ IF count >= commit_batch_size
              THEN /\ pc' = "commit"
                   /\ commit_calls' = commit_calls + 1
                   /\ UNCHANGED <<i, tasks, windows>>
              ELSE loop(all_cards_data, i + concurrency_factor, count)
    /\ UNCHANGED <<remote, card_definitions, session_new, bulk_data_uri, all_cards_data,
                   outcome, caught, rollback_calls, persisted, before, prev>>
    /\ call' = NoCall

\* a barrier that ends only when every task of the window has returned: the
\* exception of a task is lost and the wait goes on
GatherRaise_lost ==
    /\ pc = "gather"
    /\ \E t \in batch_card_data(all_cards_data, i) : tasks[t].pc = "raised"
    /\ \A t \in batch_card_data(all_cards_data, i) : tasks[t].pc = "done"
    /\ except("lookup")
    /\ UNCHANGED <<remote, card_definitions, session_new, bulk_data_uri, all_cards_data, i,
                   processed_count_since_last_commit, tasks, outcome, commit_calls,
                   windows, persisted, before, prev>>
    /\ call' = NoCall

\* line 167: gather re-raises the first exception of a task; the other tasks
\* of the window are not cancelled and go on
GatherRaise ==
    /\ pc = "gather"
    /\ \E t \in batch_card_data(all_cards_data, i) : tasks[t].pc = "raised"
    /\ except("lookup")
    /\ UNCHANGED <<remote, card_definitions, session_new, bulk_data_uri, all_cards_data, i,
                   processed_count_since_last_commit, tasks, outcome, commit_calls,
                   windows, persisted, before, prev>>
    /\ call' = NoCall

\* the unique index on scryfall_id (models.py line 23): the pending
\* instances can be inserted
Insertable ==
    /\ \A m, n \in 1..Len(session_new) :
          session_new[m].scryfall_id = session_new[n].scryfall_id => m = n
    /\ \A m \in 1..Len(session_new) :
          get_card_definition_by_scryfall_id(card_definitions, session_new[m].scryfall_id) = {}

Pending == {session_new[m] : m \in 1..Len(session_new)}

\* the commit of a batch without the reset of line 178
Commit_without_reset ==
    /\ pc = "commit"
    /\ Insertable
    /\ card_definitions' = card_definitions \cup Pending
    /\ persisted' = Append(persisted, Pending)
    /\ session_new' = <<>>
    /\ UNCHANGED processed_count_since_last_commit
    /\ loop(all_cards_data, i + concurrency_factor, processed_count_since_last_commit)
    /\ UNCHANGED <<remote, bulk_data_uri, all_cards_data, outcome, caught,
                   rollback_calls, before, prev>>
    /\ call' = NoCall

\* lines 176-178: the commit of a batch returns
Commit ==
    /\ pc = "commit"
    /\ Insertable
    /\ card_definitions' = card_definitions \cup Pending
    /\ persisted' = Append(persisted, Pending)
    /\ session_new' = <<>>
    /\ processed_count_since_last_commit' = 0
    /\ loop(all_cards_data, i + concurrency_factor, 0)
    /\ UNCHANGED <<remote, bulk_data_uri, all_cards_data, outcome, caught,
                   rollback_calls, before, prev>>
    /\ call' = NoCall

\* lines 185-186: the final commit returns
FinalCommit ==
    /\ pc = "final_commit"
    /\ Insertable
    /\ card_definitions' = card_definitions \cup Pending
    /\ persisted' = Append(persisted, Pending)
    /\ session_new' = <<>>
    /\ pc' = "close"
    /\ UNCHANGED <<remote, bulk_data_uri, all_cards_data, i,
                   processed_count_since_last_commit, tasks, outcome, caught,
                   commit_calls, rollback_calls, windows, before, prev>>
    /\ call' = NoCall

\* lines 176 and 185: session.commit() raises
CommitRaise ==
    /\ pc \in {"commit", "final_commit"}
    /\ except("commit")
    /\ UNCHANGED <<remote, card_definitions, session_new, bulk_data_uri, all_cards_data, i,
                   processed_count_since_last_commit, tasks, outcome, commit_calls,
                   windows, persisted, before, prev>>
    /\ call' = NoCall

\* an except clause inside the loop: after the rollback the next window starts
Rollback_and_go_on ==
    /\ pc = "rollback"
    /\ session_new' = <<>>
    /\ processed_count_since_last_commit' = 0
    /\ loop(all_cards_data, i + concurrency_factor, 0)
    /\ call' = NoCall
    /\ UNCHANGED <<remote, card_definitions, bulk_data_uri, all_cards_data, outcome,
                   caught, rollback_calls, persisted, before, prev>>

\* line 189: the rollback returns; what was pending is discarded
Rollback ==
    /\ pc = "rollback"
    /\ session_new' = <<>>
    /\ pc' = "close"
    /\ UNCHANGED <<remote, card_definitions, bulk_data_uri, all_cards_data, i,
                   processed_count_since_last_commit, tasks, outcome, caught,
                   commit_calls, rollback_calls, windows, persisted, before, prev>>
    /\ call' = NoCall

\* line 189: the rollback raises; the exception leaves main_populate
RollbackRaise ==
    /\ pc = "rollback"
    /\ finish("raised")
    /\ UNCHANGED <<remote, card_definitions, bulk_data_uri, all_cards_data, i,
                   processed_count_since_last_commit, caught, commit_calls,
                   rollback_calls, windows, persisted, before, prev>>
    /\ call' = NoCall

\* lines 190-196: the image client and the session are closed, "Card
\* population process finished." is printed and main_populate returns
Close ==
    /\ pc = "close"
    /\ finish("returned")
    /\ UNCHANGED <<remote, card_definitions, bulk_data_uri, all_cards_data, i,
                   processed_count_since_last_commit, caught, commit_calls,
                   rollback_calls, windows, persisted, before, prev>>
    /\ call' = NoCall

\* the script is started again against the same directory and bulk file
Rerun ==
    /\ pc = "finished"
    /\ prev' = IF outcome = "raised" \/ caught # "none" THEN "fatal" ELSE "ok"
    /\ before' = card_definitions
    /\ pc' = "locate"
    /\ bulk_data_uri' = None
    /\ all_cards_data' = <<>>
    /\ i' = 0
    /\ processed_count_since_last_commit' = 0
    /\ tasks' = <<>>
    /\ outcome' = "running"
    /\ caught' = "none"
    /\ commit_calls' = 0
    /\ rollback_calls' = 0
    /\ windows' = 0
    /\ persisted' = <<>>
    /\ UNCHANGED <<remote, card_definitions, session_new>>
    /\ call' = NoCall

Init ==
    /\ bulk_data_list \in Directories
    /\ bulk \in Datasets
    /\ card_definitions \in Tables
    /\ session_new = <<>>
    /\ pc = "locate"
    /\ bulk_data_uri = None
    /\ all_cards_data = <<>>
    /\ i = 0
    /\ processed_count_since_last_commit = 0
    /\ tasks = <<>>
    /\ outcome = "running"
    /\ caught = "none"
    /\ commit_calls = 0
    /\ rollback_calls = 0
    /\ windows = 0
    /\ persisted = <<>>
    /\ before = card_definitions
    /\ prev = "none"
    /\ call = NoCall

Next ==
    \/ \E t \in DOMAIN tasks : Start(t)
    \/ \E t \in DOMAIN tasks : LookupReturn(t)
    \/ \E t \in DOMAIN tasks : LookupRaise(t)
    \/ \E t \in DOMAIN tasks, response \in Responses : GetReturn(t, response)
    \/ Locate
    \/ LocateRaise
    \/ Download
    \/ DownloadRaise
    \/ GatherReturn
    \/ GatherRaise
    \/ Commit
    \/ FinalCommit
    \/ CommitRaise
    \/ Rollback
    \/ RollbackRaise
    \/ Close
    \/ Rerun

Spec == Init /\ [][Next]_vars

\* a step of the coroutine of card t
TaskStep(t) ==
    \/ Start(t)
    \/ LookupReturn(t)
    \/ LookupRaise(t)
    \/ \E response \in Responses : GetReturn(t, response)

\* a step of main_populate
MainStep ==
    \/ Locate \/ LocateRaise
    \/ Download \/ DownloadRaise
    \/ GatherReturn \/ GatherRaise
    \/ Commit \/ FinalCommit \/ CommitRaise
    \/ Rollback \/ RollbackRaise
    \/ Close

\* every awaited call returns or raises in the end and the event loop resumes
\* the coroutine that awaits it: main_populate is not left waiting for a call
\* that can return, nor are the tasks as a whole
FairSpec ==
    /\ Spec
    /\ WF_vars(MainStep)
    /\ WF_vars(\E t \in DOMAIN tasks : TaskStep(t))


(***************************************************************************)
(* Words for the properties.                                               *)
(***************************************************************************)
Finished == pc = "finished"

\* the run met a fatal error: an exception left main_populate or reached its
\* except clause
Fatal == outcome = "raised" \/ caught # "none"

Cards == DOMAIN tasks

missing_fields(card_data) == ~Truthy(card_data.id) \/ ~Truthy(card_data.name)

\* the rows this run has made durable
Added == card_definitions \ before

(***************************************************************************)
(* C1  Idempotence: when a run ends without fatal error after a run over   *)
(* the same dataset that ended without fatal error, none of its items was  *)
(* staged, every item was skipped by the dedup gate or rejected, and the   *)
(* table is what it was after the first run.                               *)
(***************************************************************************)
C1_Idempotence ==
    (prev = "ok" /\ Finished /\ ~Fatal) =>
        /\ \A t \in Cards : tasks[t].result \in {"no_id", "exists", "no_name"}
        /\ card_definitions = before

(***************************************************************************)
(* C2  Rollback atomicity: when the k-th commit call of a run raises, a    *)
(* rollback is issued, the k-1 earlier commits are the only ones that      *)
(* persisted rows, their rows are in the table, and nothing else was added *)
(* to the table; once the rollback is over nothing is left pending.        *)
(***************************************************************************)
C2_RollbackAtomicity ==
    caught = "commit" =>
        /\ rollback_calls >= 1
        /\ Len(persisted) = commit_calls - 1
        /\ \A k \in 1..Len(persisted) : persisted[k] \subseteq card_definitions
        /\ Added = UNION {persisted[k] : k \in 1..Len(persisted)}
        /\ pc \in {"close", "finished"} => session_new = <<>>

\* the commit of the third batch raised and the run is over
C2_Witness ==
    /\ caught = "commit"
    /\ commit_calls = 3
    /\ Len(persisted) = 2
    /\ Finished

(***************************************************************************)
(* C3  Batch-boundary commit: a run without fatal error over two full      *)
(* commit batches and a remainder of valid, pairwise distinct, new cards   *)
(* issues exactly three commits, which persist a full batch, a full batch  *)
(* and the remainder, and afterwards every card of the dataset has a row.  *)
(***************************************************************************)
C3_BatchBoundaryCommit ==
    (/\ Finished /\ ~Fatal
     /\ all_cards_data = BatchDataset
     /\ \A t \in Cards :
           get_card_definition_by_scryfall_id(before, all_cards_data[t].id) = {}) =>
        /\ Len(persisted) = 3
        /\ Cardinality(persisted[1]) = commit_batch_size
        /\ Cardinality(persisted[2]) = commit_batch_size
        /\ Cardinality(persisted[3]) = Len(BatchDataset) - 2 * commit_batch_size
        /\ Cardinality(Added) = Len(BatchDataset)

(***************************************************************************)
(* C4  Asset failure policy: in every record handed to the constructor,    *)
(* each size whose download failed (error status or any other exception)   *)
(* has neither binary nor URI.                                             *)
(***************************************************************************)
C4_AssetFailurePolicy ==
    \A s \in Sizes :
        call.fetched[s] \in {"http_status_error", "exception"} =>
            /\ call.kwargs.image_data[s] = None
            /\ call.kwargs.image_uri[s] = None

(***************************************************************************)
(* C5  Asset failures are absorbed: a card with id and name that the       *)
(* lookup did not find is staged whatever its downloads did, the record    *)
(* keeps binary and URI of every download that succeeded, and no task      *)
(* that issued a download ends with an exception.                          *)
(***************************************************************************)
C5_AssetFailuresAbsorbed ==
    /\ \A t \in Cards :
          (/\ tasks[t].pc = "done"
           /\ ~missing_fields(all_cards_data[t])
           /\ tasks[t].looked /\ ~tasks[t].existing) => tasks[t].result = "added"
    /\ \A s \in Sizes :
          call.fetched[s] = "ok" =>
              call.kwargs.image_data[s] # None /\ Truthy(call.kwargs.image_uri[s])
    /\ \A t \in Cards : tasks[t].requested # {} => tasks[t].pc # "raised"

(***************************************************************************)
(* C6  Mandatory-field rejection: a card without id or without name never  *)
(* reaches the constructor and issues no download, no row without id or    *)
(* name is pending or added, and the task that rejects a card returns      *)
(* normally.                                                               *)
(***************************************************************************)
C6_MandatoryFieldRejection ==
    /\ \A t \in Cards :
          missing_fields(all_cards_data[t]) =>
              /\ tasks[t].result \notin {"added", "error"}
              /\ tasks[t].requested = {}
              /\ call.task # t
    /\ \A row \in Pending \cup Added : Truthy(row.scryfall_id) /\ Truthy(row.name)
    /\ \A t \in Cards : tasks[t].result \in {"no_id", "no_name"} => tasks[t].pc = "done"

\* a run ended without fatal error in which a card with image URIs and
\* without name was rejected, and one with image URIs and without id
C6_Witness ==
    /\ Finished /\ ~Fatal
    /\ \E t \in Cards :
          /\ tasks[t].result = "no_name"
          /\ \E s \in Sizes : Truthy(all_cards_data[t].image_uris[s])
    /\ \E t \in Cards :
          /\ tasks[t].result = "no_id"
          /\ \E s \in Sizes : Truthy(all_cards_data[t].image_uris[s])

(***************************************************************************)
(* C7  Dedup short-circuit: a card whose id was in the table when its      *)
(* lookup ran issues no download, builds no record and calls no            *)
(* constructor; its task ends as skipped.                                  *)
(***************************************************************************)
C7_DedupShortCircuit ==
    \A t \in Cards :
        tasks[t].existing =>
            /\ tasks[t].requested = {}
            /\ tasks[t].card_model_data = NoData
            /\ call.task # t
            /\ tasks[t].result = "exists"

\* a card with all three image URIs and a name was found in the table
C7_Witness ==
    \E t \in Cards :
        /\ tasks[t].existing
        /\ tasks[t].pc = "done"
        /\ ~missing_fields(all_cards_data[t])
        /\ \A s \in Sizes : Truthy(all_cards_data[t].image_uris[s])

(***************************************************************************)
(* C8  Window concurrency bound: at most concurrency_factor tasks are in   *)
(* flight, and at most that many image requests.                           *)
(***************************************************************************)
C8_WindowConcurrencyBound ==
    /\ Cardinality({t \in Cards : InFlight(t)}) <= concurrency_factor
    /\ Cardinality({t \in Cards : tasks[t].pc = "get"}) <= concurrency_factor

\* a full window is in flight, two of its tasks in an image request
C8_Witness ==
    /\ Cardinality({t \in Cards : InFlight(t)}) = concurrency_factor
    /\ Cardinality({t \in Cards : tasks[t].pc = "get"}) >= 2

(***************************************************************************)
(* C9  Fatal abort: once the except clause of main_populate has caught an  *)
(* exception, one rollback has been issued, and the run launches no        *)
(* further window and issues no further commit or rollback.                *)
(***************************************************************************)
C9_FatalAbort ==
    /\ [](caught # "none" => rollback_calls = 1)
    /\ [][(caught # "none" /\ caught' # "none") =>
            /\ windows' = windows
            /\ commit_calls' = commit_calls
            /\ rollback_calls' = rollback_calls]_vars

\* a lookup raised in a window that was not the last: the run is over and
\* the cards of the later windows were never handed to a task
C9_Witness ==
    /\ caught = "lookup"
    /\ Finished
    /\ \E t \in Cards : tasks[t].pc = "idle"

(***************************************************************************)
(* C10  Exit outcome: a run that rolled back after a fatal error does not  *)
(* end the way a successful run ends.                                      *)
(***************************************************************************)
C10_ExitOutcome ==
    (Finished /\ outcome = "returned") => (rollback_calls = 0 /\ caught = "none")

(***************************************************************************)
(* C11  Window barrier: the orchestrator is past its wait on a window only *)
(* when every task of that window has finished; while a task of the window *)
(* is still running, the wait has not ended, whatever a sibling raised.    *)
(***************************************************************************)
C11_WindowBarrier ==
    (pc # "gather") => \A t \in Cards : ~InFlight(t)

\* the number (from 0) of the window that holds card t
Window(t) == (t - 1) \div concurrency_factor

(***************************************************************************)
(* C12  Ordering: the cards are handed to tasks in input order and one     *)
(* window at a time: when a task of a window has been created, every task  *)
(* of every earlier window has finished; and when a commit is issued,      *)
(* every task of the window that triggered it and of all earlier windows   *)
(* has finished.                                                           *)
(***************************************************************************)
C12_Ordering ==
    /\ \A t \in Cards : \A u \in Cards :
            (tasks[t].pc # "idle" /\ u < t) => tasks[u].pc # "idle"
    /\ \A t \in Cards : \A u \in Cards :
            (tasks[t].pc # "idle" /\ Window(u) < Window(t)) => tasks[u].pc = "done"
    /\ (pc \in {"commit", "final_commit"}) =>
            \A t \in Cards : (t <= i + concurrency_factor) => tasks[t].pc = "done"

\* a commit issued after the second window, with later windows still to come
C12_Witness ==
    /\ pc = "commit"
    /\ windows >= 2
    /\ i > 0
    /\ \E t \in Cards : tasks[t].pc = "idle"

(***************************************************************************)
(* C13  Write serialization: the constructor-and-add of lines 116-119 is   *)
(* run by one task at a time (the step of a stage changes no other task    *)
(* and adds at most one instance to the session), and no stage overlaps a  *)
(* commit: while a commit is awaited no task is running and no stage       *)
(* happens.                                                                *)
(***************************************************************************)
C13_WriteSerialization ==
    /\ []((pc \in {"commit", "final_commit"}) =>
            (call = NoCall /\ \A t \in Cards : ~InFlight(t)))
    /\ [][(call'.task # 0) =>
            /\ pc \notin {"commit", "final_commit"}
            /\ pc' = pc
            /\ \A u \in Cards : (u # call'.task) => tasks'[u] = tasks[u]
            /\ Len(session_new') <= Len(session_new) + 1]_vars
    /\ [][(Len(session_new') > Len(session_new)) => (call'.task # 0)]_vars

\* a task runs its stage while a sibling of the window is suspended in an
\* await
C13_Witness ==
    /\ call.task # 0
    /\ pc = "gather"
    /\ \E u \in Cards : u # call.task /\ InFlight(u) /\ tasks[u].pc # "new"

(***************************************************************************)
(* C14  Bounded loss: the session never holds commit_batch_size or more    *)
(* instances that were added and not yet committed.                        *)
(***************************************************************************)
C14_BoundedLoss == Len(session_new) <= commit_batch_size - 1

(***************************************************************************)
(* C15  External-id uniqueness: whatever runs have been made, the table    *)
(* holds at most one row per scryfall_id.                                  *)
(***************************************************************************)
C15_ExternalIdUniqueness ==
    \A r \in card_definitions : \A q \in card_definitions :
        (r.scryfall_id = q.scryfall_id) => (r = q)

\* the end of a second run over a dataset one of whose ids is in the table
C15_Witness ==
    /\ Finished
    /\ prev = "ok"
    /\ \E t \in Cards :
          /\ tasks[t].existing
          /\ get_card_definition_by_scryfall_id(card_definitions, all_cards_data[t].id) # {}

(***************************************************************************)
(* C16  Skip-if-exists frame: every row that was in the table when the run *)
(* began is in the table, with the same fields, at every moment of the     *)
(* run and after it, whether the run completes or aborts.                  *)
(***************************************************************************)
C16_SkipIfExistsFrame == before \subseteq card_definitions

\* a run over a dataset with an id of the table was aborted by a fatal
\* error after the dedup gate had skipped that card
C16_Witness ==
    /\ Finished
    /\ caught # "none"
    /\ rollback_calls = 1
    /\ \E t \in Cards :
          /\ tasks[t].existing
          /\ \E r \in before : r.scryfall_id = all_cards_data[t].id

\* the positions of the directory entries of the type main_populate asks for
MatchingEntries == {k \in DOMAIN bulk_data_list : bulk_data_list[k].type = "all_cards"}

\* the run has downloaded nothing, handed no card to a task, added nothing to
\* the session, issued no commit and no rollback, and the table is untouched
NothingDone ==
    /\ all_cards_data = <<>>
    /\ tasks = <<>>
    /\ windows = 0
    /\ session_new = <<>>
    /\ call = NoCall
    /\ commit_calls = 0
    /\ rollback_calls = 0
    /\ persisted = <<>>
    /\ card_definitions = before

(***************************************************************************)
(* C17  Source not found: when no entry of the directory has the requested *)
(* type, the lookup returns None without raising and the run returns       *)
(* having downloaded, processed, staged, committed and rolled back         *)
(* nothing; when an entry has the type, the lookup returns the             *)
(* download_uri of the first such entry and the run goes on to the         *)
(* download.                                                               *)
(***************************************************************************)
C17_SourceNotFound ==
    /\ []((MatchingEntries = {}) =>
            (bulk_data_uri = None /\ pc \in {"locate", "finished"} /\ NothingDone))
    /\ [][(pc = "locate" /\ pc' # "locate" /\ outcome' # "raised") =>
            IF MatchingEntries = {}
            THEN bulk_data_uri' = None /\ pc' = "finished" /\ outcome' = "returned"
            ELSE Truthy(bulk_data_uri') /\ pc' = "download" /\ outcome' = "running"]_vars
    /\ [](Truthy(bulk_data_uri) =>
            \E k \in MatchingEntries :
                /\ bulk_data_uri = bulk_data_list[k].download_uri
                /\ \A h \in 1..(k - 1) : h \notin MatchingEntries)

\* the run has returned after a lookup that found no entry, with rows in
\* the table
C17_Witness ==
    /\ MatchingEntries = {}
    /\ Finished
    /\ outcome = "returned"
    /\ before # {}

(***************************************************************************)
(* C18  Bulk fetch failure is fatal: when the directory GET fails, or the  *)
(* bulk GET fails or its body does not parse, the exception leaves         *)
(* main_populate at once: the run ends as failed, nothing is tried again,  *)
(* no card is processed, nothing is staged or committed and the table is   *)
(* what it was.                                                            *)
(***************************************************************************)
C18_BulkFetchFailureIsFatal ==
    /\ []((Finished /\ outcome = "raised" /\ caught = "none") => NothingDone)
    /\ [][(pc = "download" /\ pc' = "finished") =>
            (outcome' = "raised" /\ NothingDone')]_vars
    /\ [][(pc = "locate" /\ pc' = "finished" /\ MatchingEntries # {}) =>
            (outcome' = "raised" /\ NothingDone')]_vars
    /\ [][(pc \in {"locate", "download"} /\ outcome' = "raised") => pc' = "finished"]_vars

\* the bulk GET failed after the directory had named the file, with rows in
\* the table
C18_Witness ==
    /\ Finished
    /\ outcome = "raised"
    /\ Truthy(bulk_data_uri)
    /\ caught = "none"
    /\ before # {}

\* the phase of the run
Phase ==
    CASE Fatal -> "FAILED"
      [] ~Fatal /\ pc = "locate" -> "LOCATING"
      [] ~Fatal /\ pc = "download" -> "DOWNLOADING"
      [] ~Fatal /\ pc = "gather" -> "PROCESSING"
      [] ~Fatal /\ pc \in {"commit", "final_commit"} -> "COMMITTING"
      [] OTHER -> "DONE"

\* the phases a step of a run may lead to
Successors(phase) ==
    CASE phase = "LOCATING" -> {"LOCATING", "DOWNLOADING", "DONE", "FAILED"}
      [] phase = "DOWNLOADING" -> {"DOWNLOADING", "PROCESSING", "DONE", "FAILED"}
      [] phase = "PROCESSING" -> {"PROCESSING", "COMMITTING", "DONE", "FAILED"}
      [] phase = "COMMITTING" -> {"COMMITTING", "PROCESSING", "DONE", "FAILED"}
      [] OTHER -> {phase}

(***************************************************************************)
(* C19  Run state machine: a run goes through LOCATING, DOWNLOADING,       *)
(* PROCESSING (with COMMITTING in between) and DONE in that order, or to   *)
(* FAILED; and once it is DONE or FAILED nothing more happens in it: no    *)
(* bulk download, no image request and no constructor-and-add of a task,   *)
(* no commit, no new window.                                               *)
(***************************************************************************)
C19_RunStateMachine ==
    [][~(pc = "finished" /\ pc' = "locate") =>
        /\ Phase' \in Successors(Phase)
        /\ (Phase \in {"DONE", "FAILED"}) =>
              /\ all_cards_data' = all_cards_data
              /\ windows' = windows
              /\ commit_calls' = commit_calls
              /\ \A t \in Cards : tasks'[t].requested \subseteq tasks[t].requested
              /\ call' = NoCall
              /\ Len(session_new') <= Len(session_new)]_vars

(***************************************************************************)
(* C20  Completeness: when a run has ended without fatal error, every card *)
(* of the dataset with an id and a name whose id was not in the table when *)
(* the run began was staged, no other card of the same id was, and a row   *)
(* of that id and name is in the table.                                    *)
(***************************************************************************)
C20_Completeness ==
    (Finished /\ ~Fatal) =>
        \A t \in Cards :
            (/\ ~missing_fields(all_cards_data[t])
             /\ get_card_definition_by_scryfall_id(before, all_cards_data[t].id) = {}) =>
                /\ tasks[t].result = "added"
                /\ \A u \in Cards :
                      (tasks[u].result = "added"
                          /\ all_cards_data[u].id = all_cards_data[t].id) => u = t
                /\ \E r \in Added : /\ r.scryfall_id = all_cards_data[t].id
                                    /\ r.name = all_cards_data[t].name

(***************************************************************************)
(* C21  Final commit: when the window loop ends, one more commit is issued *)
(* exactly when processed_count_since_last_commit is greater than 0; and   *)
(* when a run has ended without fatal error no instance is left in the     *)
(* session uncommitted.                                                    *)
(***************************************************************************)
C21_FinalCommit ==
    /\ [][(pc \in {"download", "gather", "commit"} /\ pc' \in {"final_commit", "close"}) =>
            /\ (pc' = "final_commit") <=> (processed_count_since_last_commit' > 0)
            /\ commit_calls' = commit_calls + (IF pc' = "final_commit" THEN 1 ELSE 0)]_vars
    /\ []((pc = "final_commit") => processed_count_since_last_commit > 0)
    /\ []((pc \in {"close", "finished"} /\ ~Fatal) => session_new = <<>>)

\* the final commit is awaited after a last window that left the counter
\* above 0 and below the threshold
C21_Witness ==
    /\ pc = "final_commit"
    /\ processed_count_since_last_commit > 0
    /\ i + concurrency_factor >= Len(all_cards_data)
    /\ \A t \in Cards : tasks[t].pc = "done"

\* the cards of the window the orchestrator is at
CurrentWindow == {t \in Cards : Window(t) = i \div concurrency_factor}

\* gather has returned for the current window
WindowReturns ==
    /\ pc = "gather"
    /\ caught' = "none"
    /\ (pc' # "gather" \/ windows' # windows)

(***************************************************************************)
(* C22  Counter discipline: when a window has returned,                    *)
(* processed_count_since_last_commit grows by the number of cards of the   *)
(* window, whatever became of them; a commit is issued then exactly when   *)
(* the counter has reached commit_batch_size, and the counter is 0 once    *)
(* that commit has returned; so while a window is processed the counter    *)
(* is at least 0 and less than commit_batch_size.                          *)
(***************************************************************************)
C22_CounterDiscipline ==
    /\ [][WindowReturns =>
            /\ processed_count_since_last_commit' =
                    processed_count_since_last_commit + Cardinality(CurrentWindow)
            /\ (pc' = "commit") <=> (processed_count_since_last_commit' >= commit_batch_size)
            /\ (pc' = "commit") => commit_calls' = commit_calls + 1]_vars
    /\ [][(pc = "commit" /\ caught' = "none") =>
            processed_count_since_last_commit' = 0]_vars
    /\ []((pc = "gather") =>
            (0 <= processed_count_since_last_commit
                /\ processed_count_since_last_commit < commit_batch_size))

\* a window is processed after a commit, with the counter back at 0
C22_Witness ==
    /\ pc = "gather"
    /\ commit_calls >= 1
    /\ processed_count_since_last_commit = 0
    /\ \E t \in CurrentWindow : tasks[t].pc = "lookup"

\* the values i takes in the for loop of line 161 over the downloaded dataset
WindowStarts ==
    {a \in 0..(Len(all_cards_data) - 1) : a % concurrency_factor = 0}

\* card t has been handed to process_card_data
Handed(t) == tasks[t].pc # "idle"

\* the windows of the dataset are runs of consecutive cards, pairwise
\* disjoint, they cover the dataset, and each has concurrency_factor cards
\* but the last, which has between 1 and concurrency_factor
Partitioned ==
    LET N == Len(all_cards_data)
        slice(a) == batch_card_data(all_cards_data, a)
    IN  /\ \A a \in WindowStarts :
              /\ slice(a) # {}
              /\ \A t \in slice(a) : \A u \in slice(a) :
                    \A v \in 1..N : (t <= v /\ v <= u) => v \in slice(a)
              /\ Cardinality(slice(a)) <= concurrency_factor
              /\ (a + concurrency_factor < N) =>
                    Cardinality(slice(a)) = concurrency_factor
        /\ \A a \in WindowStarts : \A b \in WindowStarts :
              (a # b) => slice(a) \cap slice(b) = {}
        /\ UNION {slice(a) : a \in WindowStarts} = 1..N

\* while a window is processed, the cards handed to a task so far are those
\* of the windows up to it
HandedByWindows ==
    (pc = "gather") =>
        /\ i \in WindowStarts
        /\ windows = (i \div concurrency_factor) + 1
        /\ {t \in Cards : Handed(t)} =
                UNION {batch_card_data(all_cards_data, a) :
                            a \in {b \in WindowStarts : b <= i}}

\* an empty dataset gives no window and no commit
EmptyDataset == (all_cards_data = <<>>) => (windows = 0 /\ commit_calls = 0 /\ tasks = <<>>)

(***************************************************************************)
(* C23 as stated: the windows partition the dataset, and at the end of     *)
(* every run over a dataset every card has been handed to                  *)
(* process_card_data.                                                      *)
(***************************************************************************)
C23_HandedInEveryRun ==
    /\ Partitioned
    /\ HandedByWindows
    /\ EmptyDataset
    /\ (Finished /\ all_cards_data # <<>>) => \A t \in Cards : Handed(t)

(***************************************************************************)
(* C23  Window partition, amended: the windows partition the dataset; the  *)
(* cards are handed to process_card_data window by window, each at most    *)
(* once in a run, and all of them when the run ends without fatal error;   *)
(* an empty dataset gives no window and no commit.                         *)
(***************************************************************************)
C23_WindowPartition ==
    /\ [](Partitioned /\ HandedByWindows /\ EmptyDataset)
    /\ []((pc \in {"close", "finished"} /\ ~Fatal /\ Truthy(bulk_data_uri)) =>
            /\ Cards = 1..Len(all_cards_data) \/ all_cards_data = <<>>
            /\ \A t \in Cards : Handed(t)
            /\ windows = Cardinality(WindowStarts))
    /\ [][\A t \in DOMAIN tasks' :
            (tasks'[t].pc = "new" /\ t \in DOMAIN tasks /\ tasks[t].pc # "new") =>
                tasks[t].pc = "idle"]_vars

\* a run over a dataset whose last window is not full has ended without
\* fatal error
C23_Witness ==
    /\ Finished
    /\ ~Fatal
    /\ Len(all_cards_data) > 2 * concurrency_factor
    /\ Len(all_cards_data) % concurrency_factor # 0
    /\ windows = (Len(all_cards_data) \div concurrency_factor) + 1
    /\ \A t \in Cards : tasks[t].pc = "done"

\* in record r every size with image data has its image URI
BinaryImpliesUri(r) ==
    \A s \in Sizes : (r.image_data[s] # None) => (r.image_uri[s] # None)

(***************************************************************************)
(* C24  Binary implies URI: every record handed to the constructor, added  *)
(* to the session or stored in the table, and every record a task is       *)
(* working on, has the image URI of each size whose image data it has; and *)
(* a task requests the image of a size only when the card object names a   *)
(* URI for that size.                                                      *)
(***************************************************************************)
C24_BinaryImpliesUri ==
    /\ BinaryImpliesUri(call.kwargs)
    /\ \A m \in 1..Len(session_new) : BinaryImpliesUri(session_new[m])
    /\ \A r \in card_definitions : BinaryImpliesUri(r)
    /\ \A t \in Cards :
          /\ BinaryImpliesUri(tasks[t].card_model_data)
          /\ tasks[t].requested \subseteq
                {s \in Sizes : Truthy(all_cards_data[t].image_uris[s])}

\* a record reaches the constructor with the data of one image, after the
\* download of another image failed and its URI was cleared
C24_Witness ==
    /\ call.task # 0
    /\ \E s \in Sizes : call.kwargs.image_data[s] # None /\ call.kwargs.image_uri[s] # None
    /\ \E s \in Sizes : /\ call.fetched[s] = "exception"
                        /\ call.kwargs.image_data[s] = None
                        /\ call.kwargs.image_uri[s] = None

\* line 171: the total the run has printed last, 0 before the first window
\* has returned
total_processed ==
    IF tasks = <<>> THEN 0
    ELSE IF pc = "gather" \/ caught = "lookup" THEN i
    ELSE i + Cardinality(CurrentWindow)

(***************************************************************************)
(* C25  Counters bound durable state: at every moment of a run and after   *)
(* it, aborted or not, the rows the run has added to the table are no more *)
(* than the total of processed cards it has printed.                       *)
(***************************************************************************)
C25_CountersBoundDurableState == Cardinality(Added) <= total_processed

(***************************************************************************)
(* C26  Termination: when every awaited call returns or raises in the end  *)
(* and the event loop resumes the coroutines, whatever state a run is in,  *)
(* it comes to its end, DONE or FAILED; so no wait on a window goes on     *)
(* forever.                                                                *)
(***************************************************************************)
C26_Termination == []<>(Finished /\ Phase \in {"DONE", "FAILED"})

\* a run is at its third window while the tasks of the window await their
\* lookups
C26_Witness ==
    /\ pc = "gather"
    /\ windows = 3
    /\ \A t \in CurrentWindow : tasks[t].pc = "lookup"

\* the ids of a set of rows
Ids(rows) == {r.scryfall_id : r \in rows}

(***************************************************************************)
(* C27  Re-run as retry: when a run that met no fatal error has ended      *)
(* after a run over the same dataset that was aborted, the table holds     *)
(* the rows it held before (those from before the aborted run and those    *)
(* the aborted run committed), unchanged, and one row more for each card   *)
(* with id and name whose id it did not hold, and nothing else; no id has  *)
(* two rows.                                                               *)
(***************************************************************************)
C27_RerunAsRetry ==
    (prev = "fatal" /\ Finished /\ ~Fatal /\ Truthy(bulk_data_uri)) =>
        /\ before \subseteq card_definitions
        /\ Ids(Added) = {all_cards_data[t].id :
                            t \in {u \in Cards : ~missing_fields(all_cards_data[u])}}
                        \ Ids(before)
        /\ \A r \in Added : \E t \in Cards : /\ r.scryfall_id = all_cards_data[t].id
                                             /\ r.name = all_cards_data[t].name
        /\ \A r \in card_definitions : \A q \in card_definitions :
                (r.scryfall_id = q.scryfall_id) => (r = q)

(***************************************************************************)
(* C28  Session exclusivity: at most one task has a lookup outstanding on  *)
(* the session, and no task runs its constructor-and-add while the lookup  *)
(* of another is outstanding.                                              *)
(***************************************************************************)
C28_SessionExclusivity ==
    /\ Cardinality({t \in Cards : tasks[t].pc = "lookup"}) <= 1
    /\ (call.task # 0) => \A u \in Cards : (u # call.task) => tasks[u].pc # "lookup"

(***************************************************************************)
(* C29  No work after abort: once the except clause of main_populate has   *)
(* begun the rollback, no task requests an image, begins a lookup or runs  *)
(* its constructor-and-add, and no instance is added to the session.       *)
(***************************************************************************)
C29_NoWorkAfterAbort ==
    [][(rollback_calls > 0 /\ rollback_calls' > 0) =>
        /\ \A t \in Cards :
              /\ tasks'[t].requested \subseteq tasks[t].requested
              /\ (tasks'[t].pc = "lookup") => (tasks[t].pc = "lookup")
              /\ (tasks'[t].pc = "get") =>
                    (tasks[t].pc = "get" /\ tasks'[t].size = tasks[t].size)
        /\ call' = NoCall
        /\ Len(session_new') <= Len(session_new)]_vars

(***************************************************************************)
(* C30  No double staging: in one run no two cards of the same id are      *)
(* added to the session, and the session never holds two instances of one  *)
(* id.                                                                     *)
(***************************************************************************)
C30_NoDoubleStaging ==
    /\ \A t \in Cards : \A u \in Cards :
          (/\ tasks[t].result = "added"
           /\ tasks[u].result = "added"
           /\ all_cards_data[t].id = all_cards_data[u].id) => t = u
    /\ \A m \in 1..Len(session_new) : \A n \in 1..Len(session_new) :
          (session_new[m].scryfall_id = session_new[n].scryfall_id) => m = n

\* in this step task t issues an image request
Requests(t) ==
    /\ tasks'[t].pc = "get"
    /\ (tasks[t].pc # "get" \/ tasks'[t] # tasks[t])

(***************************************************************************)
(* C31  No wasted downloads: a task has requested an image only when its   *)
(* card has an id, its lookup has returned and found no row, and the card  *)
(* has a name; a card that was rejected or skipped has had no image        *)
(* requested; and no task requests the image of one size twice.            *)
(***************************************************************************)
C31_NoWastedDownloads ==
    /\ [](\A t \in Cards :
            /\ (tasks[t].requested # {} \/ tasks[t].pc = "get") =>
                  /\ Truthy(all_cards_data[t].id)
                  /\ tasks[t].looked
                  /\ ~tasks[t].existing
                  /\ get_card_definition_by_scryfall_id(before, all_cards_data[t].id) = {}
                  /\ Truthy(all_cards_data[t].name)
            /\ (tasks[t].result \in {"no_id", "exists", "no_name"}) =>
                  tasks[t].requested = {})
    /\ [][\A t \in DOMAIN tasks :
            (t \in DOMAIN tasks' /\ Requests(t)) =>
                /\ SizeOrder[tasks'[t].size] \notin tasks[t].requested
                /\ tasks'[t].requested = tasks[t].requested \cup {SizeOrder[tasks'[t].size]}
                /\ Truthy(all_cards_data[t].image_uris[SizeOrder[tasks'[t].size]])]_vars

\* one card of the window has had its three images requested and has reached
\* the constructor call, another, whose card names three URIs but no name,
\* has been rejected without a request
C31_Witness ==
    /\ \E t \in Cards : tasks[t].result = "error" /\ tasks[t].requested = Sizes
    /\ \E u \in Cards :
          /\ tasks[u].result = "no_name"
          /\ tasks[u].requested = {}
          /\ \A s \in Sizes : Truthy(all_cards_data[u].image_uris[s])

\* the values of i at which the loop over N cards issues a commit (line 174),
\* from the window at index at on, with count cards counted since the last
\* commit: a matter of N, concurrency_factor and commit_batch_size alone
RECURSIVE CommitPoints(_, _, _)
CommitPoints(N, at, count) ==
    IF at >= N THEN {}
    ELSE LET c == count + Min(concurrency_factor, N - at)
         IN  IF c >= commit_batch_size
             THEN {at} \cup CommitPoints(N, at + concurrency_factor, 0)
             ELSE CommitPoints(N, at + concurrency_factor, c)

\* the cards left uncommitted when the loop over N cards ends
LeftOver(N) ==
    LET points == CommitPoints(N, 0, 0)
    IN  IF points = {} THEN N
        ELSE LET last == CHOOSE a \in points : \A b \in points : b <= a
             IN  N - Min(last + concurrency_factor, N)

\* the commits a run over N cards issues when it meets no fatal error
ExpectedCommits(N) ==
    Cardinality(CommitPoints(N, 0, 0)) + (IF LeftOver(N) > 0 THEN 1 ELSE 0)

\* what becomes of card_data in a run that began with the table before,
\* whatever the order in which the tasks are resumed
ExpectedResult(card_data) ==
    IF missing_id(card_data) THEN "no_id"
    ELSE IF get_card_definition_by_scryfall_id(before, card_data.id) # {} THEN "exists"
    ELSE IF missing_name(build(card_data)) THEN "no_name"
    ELSE IF CardDefinitionModel(card_model_data_keys) THEN "added"
    ELSE "error"

\* the records the downloads can make of card_data, one for each choice of
\* the responses
PossibleRecords(card_data) ==
    {r \in [scryfall_id : {card_data.id}, name : {card_data.name},
            image_uri : [Sizes -> {None} \cup {card_data.image_uris[s] : s \in Sizes}],
            image_data : [Sizes -> {None, 1}]] :
        \A s \in Sizes :
            IF Truthy(card_data.image_uris[s])
            THEN \/ r.image_uri[s] = card_data.image_uris[s]
                 \/ r.image_uri[s] = None /\ r.image_data[s] = None
            ELSE r.image_uri[s] = card_data.image_uris[s] /\ r.image_data[s] = None}

(***************************************************************************)
(* C32  Interleaving independence: at the end of a run without fatal       *)
(* error, in whatever order the tasks of the windows were resumed, what    *)
(* became of each card, the ids of the rows the run has added, and the     *)
(* number of commits it has issued are the values fixed by the table       *)
(* before the run and the dataset; and each row added is one the           *)
(* downloads of its card can give.                                         *)
(***************************************************************************)
C32_InterleavingIndependence ==
    (Finished /\ ~Fatal /\ Truthy(bulk_data_uri)) =>
        /\ \A t \in Cards : tasks[t].result = ExpectedResult(all_cards_data[t])
        /\ Ids(Added) = {all_cards_data[t].id :
                            t \in {u \in Cards : ExpectedResult(all_cards_data[u]) = "added"}}
        /\ \A r \in Added : \E t \in Cards : r \in PossibleRecords(all_cards_data[t])
        /\ commit_calls = ExpectedCommits(Len(all_cards_data))
        /\ Len(persisted) = commit_calls

\* a run has ended without fatal error in which the second card of a window
\* got the answer to its lookup while the first was still in its downloads
C32_Witness ==
    /\ Finished
    /\ ~Fatal
    /\ Len(all_cards_data) = 2
    /\ tasks[1].requested # {}
    /\ tasks[2].result \in {"exists", "no_name"}
    /\ commit_calls = 1

\* the cards of the dataset that process_card_data leaves at lines 42, 48 or 73
Skipped == {t \in Cards : tasks[t].result \in {"no_id", "exists", "no_name"}}

(***************************************************************************)
(* C33  Commit count is data-independent: the loop issues a commit after   *)
(* a window exactly when the index of the window is one of the commit      *)
(* points computed from the length of the dataset, concurrency_factor and  *)
(* commit_batch_size, and it issues the final commit exactly when these    *)
(* leave cards uncounted at the end, whatever became of the cards; and a   *)
(* commit that returns with nothing pending leaves the table as it was.    *)
(***************************************************************************)
C33_CommitCountDataIndependent ==
    /\ [](/\ pc = "commit" => i \in CommitPoints(Len(all_cards_data), 0, 0)
          /\ pc = "final_commit" => LeftOver(Len(all_cards_data)) > 0
          /\ (Finished /\ ~Fatal /\ Truthy(bulk_data_uri)) =>
                /\ commit_calls = ExpectedCommits(Len(all_cards_data))
                /\ Len(persisted) = ExpectedCommits(Len(all_cards_data)))
    /\ [][/\ (/\ pc = "gather"
              /\ \/ pc' \in {"commit", "final_commit", "close"}
                 \/ pc' = "gather" /\ i' # i) =>
                 (pc' = "commit" <=> i \in CommitPoints(Len(all_cards_data), 0, 0))
          /\ (pc \in {"download", "gather", "commit"} /\ pc' \in {"final_commit", "close"}) =>
                 (pc' = "final_commit" <=> LeftOver(Len(all_cards_data')) > 0)
          /\ (Len(persisted') > Len(persisted) /\ session_new = <<>>) =>
                 /\ card_definitions' = card_definitions
                 /\ persisted'[Len(persisted')] = {}]_vars

\* a run has ended without fatal error in which every card was skipped or
\* rejected, and yet a commit was issued inside the loop and a final one
\* after it, both with nothing pending, and the table is as it was
C33_Witness ==
    /\ Finished
    /\ ~Fatal
    /\ Skipped = Cards
    /\ \E t \in Cards : tasks[t].result = "exists"
    /\ CommitPoints(Len(all_cards_data), 0, 0) # {}
    /\ LeftOver(Len(all_cards_data)) > 0
    /\ commit_calls = 2
    /\ persisted = <<{}, {}>>
    /\ card_definitions = before

====
